---- MODULE Spec2Model ----
(***************************************************************************)
(* Model of AudioCapture (src/vol-regulator/src/core/audio_capture.py):    *)
(* the capture session over the soundcard backend.  The session is         *)
(* single-threaded and synchronous, so every public method is one action.  *)
(* The backend is an external collaborator: what each of its calls does    *)
(* during one method call is an input of the action (env).                 *)
(*                                                                         *)
(* Backend resource accounting follows the context-manager protocol: a     *)
(* recorder is acquired when its __enter__ returns normally and released   *)
(* when its __exit__ is invoked (whether or not __exit__ raises).          *)
(***************************************************************************)
EXTENDS Integers, Sequences, FiniteSets, TLC

\* ---------------------------------------------------------------- bounds
MaxRecorders == 2     \* recorders the backend creates in one behaviour
MaxBlocks == 2        \* cap on blocks_read
MaxReconnects == 1    \* cap on reconnects
MaxFrames == 2        \* largest numframes argument tried
Rate == 2             \* sample rate the session is constructed with (frames/s)
MaxDuration == 5      \* longest capture tried, in units of 1/DurationUnit s

\* ---------------------------------------------------------------- values
None == "None"                       \* Python None (device_name, _device)
NoRec == 0                           \* Python None for _rec
Names == {"spkA", "spkB"}            \* names the backend reports for devices
Fail == "raise"                      \* a backend lookup that raises
NumFrames == 0 .. MaxFrames          \* numframes arguments tried (0 is invalid)
RecIds == 1 .. (MaxRecorders + 1)
SampleRates == {Rate}                \* sample_rate arguments tried
DurationUnit == 3                    \* durations are multiples of 1/3 second
Durations == 0 .. MaxDuration        \* duration arguments tried (0 is invalid)

NoBlock == [rec |-> NoRec, frames |-> 0]
Ok == [status |-> "ok", err |-> "none", block |-> NoBlock]
Raise(e) == [status |-> "raise", err |-> e, block |-> NoBlock]
Return(b) == [status |-> "ok", err |-> "none", block |-> b]

\* One backend call as it appears in the trace of a method call: the function,
\* the name it was asked for (get_speaker), the device it returned or was made
\* on, the recorder it created or was made on, the frames asked for (record),
\* whether it returned normally, and the recorders held when it has ended.
BCall(fn, arg, dev, r, n, ok, h) ==
  [fn |-> fn, arg |-> arg, dev |-> dev, rec |-> r, n |-> n, ok |-> ok, nheld |-> Cardinality(h)]

\* What the backend does during one method call.
Envs ==
  [ named    : Names \cup {Fail},    \* sc.get_speaker(name): device found, or raises
    dflt     : Names \cup {Fail},    \* sc.default_speaker(): current default, or raises
    recorder : BOOLEAN,              \* device.recorder(...) returns
    enter    : BOOLEAN,              \* rec.__enter__() returns
    exit     : BOOLEAN,              \* rec.__exit__(...) returns
    record1  : BOOLEAN,              \* first record() of the call returns
    record2  : BOOLEAN ]             \* second record() of the call returns

\* open() makes no __exit__ or record call, close() only the __exit__ call.
OpenEnvs == {env \in Envs : env.exit /\ env.record1 /\ env.record2}
CloseEnvs ==
  {env \in Envs : /\ env.named = Fail /\ env.dflt = Fail /\ env.recorder
                  /\ env.enter /\ env.record1 /\ env.record2}

\* The backend calls of next_block in the order they are made: a call that is
\* not reached has no outcome to choose, so its field keeps the value below.
Calm ==
  [ named |-> Fail, dflt |-> Fail, recorder |-> TRUE, enter |-> TRUE,
    exit |-> TRUE, record1 |-> TRUE, record2 |-> TRUE ]
ReadEnvs ==
  {env \in Envs :
     LET toExit == ~env.record1
         toResolve == toExit /\ env.exit
         toRecorder == toResolve /\ env.dflt # Fail
         toEnter == toRecorder /\ env.recorder
         toRetry == toEnter /\ env.enter
     IN /\ toExit \/ env.exit = Calm.exit
        /\ toResolve \/ (env.named = Calm.named /\ env.dflt = Calm.dflt)
        /\ toRecorder \/ env.recorder = Calm.recorder
        /\ toEnter \/ env.enter = Calm.enter
        /\ toRetry \/ env.record2 = Calm.record2}

\* capture(): the backend misbehaves during at most one of its reads, the
\* read number `at` (0: during none, else its second read, after one block
\* was returned), and the default device it then offers, if any, is spkA.
FaultReads == {2}
CaptureFaults ==
  {[at |-> 0, env |-> Calm]} \cup
  [at : FaultReads,
   env : {env \in ReadEnvs : ~env.record1 /\ env.named = Fail /\ env.dflt # "spkB"}]

\* ---------------------------------------------------------------- state
VARIABLES
  device_name,   \* self.device_name
  fs,            \* self.fs
  _device,       \* self._device: name of the stored device, or None
  _rec,          \* self._rec: id of the stored recorder, or NoRec
  _opened,       \* self._opened
  blocks_read,   \* self.blocks_read
  reconnects,    \* self.reconnects
  held,          \* backend: recorders entered and not yet exited
  created,       \* backend: number of recorder objects created so far
  exit_calls,    \* backend: __exit__ invocations per recorder
  op,            \* the last method call and its argument
  calls,         \* backend calls made by the last method call, in order
  reads,         \* next_block calls made by the last method call, in order
  outcome,       \* how the last method call ended
  discarded      \* history: what recoveries have done to the name Configured

vars == <<device_name, fs, _device, _rec, _opened, blocks_read, reconnects,
          held, created, exit_calls, op, calls, reads, outcome, discarded>>

\* The session and backend state as one value, for the method operators.
Self ==
  [ device_name |-> device_name, fs |-> fs, _device |-> _device, _rec |-> _rec,
    _opened |-> _opened, blocks_read |-> blocks_read, reconnects |-> reconnects,
    held |-> held, created |-> created, exit_calls |-> exit_calls ]

\* Python truthiness of self.device_name (None is falsy, device names are not).
Truthy(name) == name # None

\* ---------------------------------------------------------------- open()
\* Device resolution of open(): named speaker if provided (falling back to
\* the default when the lookup raises), otherwise the current default.
resolve(s, env) ==
  LET byName == Truthy(s.device_name)
      c1 == IF byName
              THEN <<BCall("get_speaker", s.device_name, env.named, NoRec, 0, env.named # Fail, s.held)>>
              ELSE <<>>
      useDefault == ~byName \/ env.named = Fail
      c2 == IF useDefault
              THEN <<BCall("default_speaker", None, env.dflt, NoRec, 0, env.dflt # Fail, s.held)>>
              ELSE <<>>
  IN [ device |-> IF useDefault THEN env.dflt ELSE env.named,
       calls  |-> c1 \o c2 ]

\* open() storing the recorder before it has been entered.
open_save_early(s, env) ==
  LET d == resolve(s, env)
      id == s.created + 1
      cRec == BCall("recorder", None, d.device, id, 0, env.recorder, s.held)
      cEnter == BCall("__enter__", None, d.device, id, 0, env.enter,
                      IF env.enter THEN s.held \cup {id} ELSE s.held)
  IN IF d.device = Fail
       THEN [s |-> s, calls |-> d.calls, out |-> Raise("default_speaker")]
     ELSE IF ~env.recorder
       THEN [s |-> s, calls |-> d.calls \o <<cRec>>, out |-> Raise("recorder")]
     ELSE IF ~env.enter
       THEN [s |-> [s EXCEPT !.created = id, !._device = d.device, !._rec = id],
             calls |-> d.calls \o <<cRec, cEnter>>, out |-> Raise("__enter__")]
     ELSE [s |-> [s EXCEPT !.created = id,
                           !.held = @ \cup {id},
                           !._device = d.device,
                           !._rec = id,
                           !.device_name = d.device,
                           !._opened = TRUE],
           calls |-> d.calls \o <<cRec, cEnter>>, out |-> Ok]

\* open() overwriting device_name as soon as the device is resolved.
open_name_early(s, env) ==
  LET d == resolve(s, env)
      id == s.created + 1
      cRec == BCall("recorder", None, d.device, id, 0, env.recorder, s.held)
      cEnter == BCall("__enter__", None, d.device, id, 0, env.enter,
                      IF env.enter THEN s.held \cup {id} ELSE s.held)
      sn == [s EXCEPT !.device_name = d.device]
  IN IF d.device = Fail
       THEN [s |-> s, calls |-> d.calls, out |-> Raise("default_speaker")]
     ELSE IF ~env.recorder
       THEN [s |-> sn, calls |-> d.calls \o <<cRec>>, out |-> Raise("recorder")]
     ELSE IF ~env.enter
       THEN [s |-> [sn EXCEPT !.created = id],
             calls |-> d.calls \o <<cRec, cEnter>>, out |-> Raise("__enter__")]
     ELSE [s |-> [sn EXCEPT !.created = id,
                            !.held = @ \cup {id},
                            !._device = d.device,
                            !._rec = id,
                            !._opened = TRUE],
           calls |-> d.calls \o <<cRec, cEnter>>, out |-> Ok]

\* open() keeping a configured device_name instead of the resolved name.
open_keep_requested(s, env) ==
  LET d == resolve(s, env)
      id == s.created + 1
      cRec == BCall("recorder", None, d.device, id, 0, env.recorder, s.held)
      cEnter == BCall("__enter__", None, d.device, id, 0, env.enter,
                      IF env.enter THEN s.held \cup {id} ELSE s.held)
  IN IF d.device = Fail
       THEN [s |-> s, calls |-> d.calls, out |-> Raise("default_speaker")]
     ELSE IF ~env.recorder
       THEN [s |-> s, calls |-> d.calls \o <<cRec>>, out |-> Raise("recorder")]
     ELSE IF ~env.enter
       THEN [s |-> [s EXCEPT !.created = id],
             calls |-> d.calls \o <<cRec, cEnter>>, out |-> Raise("__enter__")]
     ELSE [s |-> [s EXCEPT !.created = id,
                           !.held = @ \cup {id},
                           !._device = d.device,
                           !._rec = id,
                           !.device_name = IF Truthy(@) THEN @ ELSE d.device,
                           !._opened = TRUE],
           calls |-> d.calls \o <<cRec, cEnter>>, out |-> Ok]

\* open() leaving device_name unset when the session was constructed without one.
open_keep_unset(s, env) ==
  LET d == resolve(s, env)
      id == s.created + 1
      cRec == BCall("recorder", None, d.device, id, 0, env.recorder, s.held)
      cEnter == BCall("__enter__", None, d.device, id, 0, env.enter,
                      IF env.enter THEN s.held \cup {id} ELSE s.held)
  IN IF d.device = Fail
       THEN [s |-> s, calls |-> d.calls, out |-> Raise("default_speaker")]
     ELSE IF ~env.recorder
       THEN [s |-> s, calls |-> d.calls \o <<cRec>>, out |-> Raise("recorder")]
     ELSE IF ~env.enter
       THEN [s |-> [s EXCEPT !.created = id],
             calls |-> d.calls \o <<cRec, cEnter>>, out |-> Raise("__enter__")]
     ELSE [s |-> [s EXCEPT !.created = id,
                           !.held = @ \cup {id},
                           !._device = d.device,
                           !._rec = id,
                           !.device_name = IF Truthy(@) THEN d.device ELSE @,
                           !._opened = TRUE],
           calls |-> d.calls \o <<cRec, cEnter>>, out |-> Ok]

open(s, env) ==
  LET d == resolve(s, env)
      id == s.created + 1
      cRec == BCall("recorder", None, d.device, id, 0, env.recorder, s.held)
      cEnter == BCall("__enter__", None, d.device, id, 0, env.enter,
                      IF env.enter THEN s.held \cup {id} ELSE s.held)
  IN IF d.device = Fail
       THEN [s |-> s, calls |-> d.calls, out |-> Raise("default_speaker")]
     ELSE IF ~env.recorder
       THEN [s |-> s, calls |-> d.calls \o <<cRec>>, out |-> Raise("recorder")]
     ELSE IF ~env.enter
       THEN [s |-> [s EXCEPT !.created = id],
             calls |-> d.calls \o <<cRec, cEnter>>, out |-> Raise("__enter__")]
     ELSE [s |-> [s EXCEPT !.created = id,
                           !.held = @ \cup {id},
                           !._device = d.device,
                           !._rec = id,
                           !.device_name = d.device,
                           !._opened = TRUE],
           calls |-> d.calls \o <<cRec, cEnter>>, out |-> Ok]

\* ---------------------------------------------------------------- close()
\* close() without its guard: __exit__ is looked up on None.
close_unguarded(s, env) ==
  IF s._rec # NoRec /\ s._opened
    THEN [s |-> [s EXCEPT !.held = @ \ {s._rec},
                          !.exit_calls[s._rec] = @ + 1,
                          !._opened = FALSE,
                          !._rec = NoRec,
                          !._device = None],
          calls |-> <<BCall("__exit__", None, s._device, s._rec, 0, env.exit, s.held \ {s._rec})>>,
          out |-> IF env.exit THEN Ok ELSE Raise("__exit__")]
    ELSE [s |-> s, calls |-> <<>>, out |-> Raise("AttributeError")]

\* close() clearing the session only after __exit__ returned (no finally).
close_no_finally(s, env) ==
  IF s._rec # NoRec /\ s._opened
    THEN [s |-> IF env.exit
                  THEN [s EXCEPT !.held = @ \ {s._rec},
                                 !.exit_calls[s._rec] = @ + 1,
                                 !._opened = FALSE,
                                 !._rec = NoRec,
                                 !._device = None]
                  ELSE [s EXCEPT !.held = @ \ {s._rec},
                                 !.exit_calls[s._rec] = @ + 1],
          calls |-> <<BCall("__exit__", None, s._device, s._rec, 0, env.exit, s.held \ {s._rec})>>,
          out |-> IF env.exit THEN Ok ELSE Raise("__exit__")]
    ELSE [s |-> s, calls |-> <<>>, out |-> Ok]

close(s, env) ==
  IF s._rec # NoRec /\ s._opened
    THEN [s |-> [s EXCEPT !.held = @ \ {s._rec},
                          !.exit_calls[s._rec] = @ + 1,
                          !._opened = FALSE,
                          !._rec = NoRec,
                          !._device = None],
          calls |-> <<BCall("__exit__", None, s._device, s._rec, 0, env.exit, s.held \ {s._rec})>>,
          out |-> IF env.exit THEN Ok ELSE Raise("__exit__")]
    ELSE [s |-> s, calls |-> <<>>, out |-> Ok]

\* ---------------------------------------------------------------- next_block()
\* The except branch forcing the default device only after it has reopened.
reconnect_unset_late(s, numframes, env) ==
  LET c == close(s, env)
      o == open(c.s, env)
      s2 == [o.s EXCEPT !.reconnects = @ + 1, !.device_name = None]
      cRetry == BCall("record", None, s2._device, s2._rec, numframes, env.record2, s2.held)
  IN IF c.out.status = "raise"
       THEN [s |-> c.s, calls |-> c.calls, out |-> c.out]
     ELSE IF o.out.status = "raise"
       THEN [s |-> [o.s EXCEPT !.device_name = None],
             calls |-> c.calls \o o.calls, out |-> o.out]
     ELSE IF ~env.record2
       THEN [s |-> s2, calls |-> c.calls \o o.calls \o <<cRetry>>,
             out |-> Raise("record2")]
     ELSE [s |-> [s2 EXCEPT !.blocks_read = @ + 1],
           calls |-> c.calls \o o.calls \o <<cRetry>>,
           out |-> Return([rec |-> s2._rec, frames |-> numframes])]

\* The except branch retrying on the device it already had.
reconnect_same_device(s, numframes, env) ==
  LET c == close(s, env)
      o == open(c.s, env)
      s2 == [o.s EXCEPT !.reconnects = @ + 1]
      cRetry == BCall("record", None, s2._device, s2._rec, numframes, env.record2, s2.held)
  IN IF c.out.status = "raise"
       THEN [s |-> c.s, calls |-> c.calls, out |-> c.out]
     ELSE IF o.out.status = "raise"
       THEN [s |-> o.s, calls |-> c.calls \o o.calls, out |-> o.out]
     ELSE IF ~env.record2
       THEN [s |-> s2, calls |-> c.calls \o o.calls \o <<cRetry>>,
             out |-> Raise("record2")]
     ELSE [s |-> [s2 EXCEPT !.blocks_read = @ + 1],
           calls |-> c.calls \o o.calls \o <<cRetry>>,
           out |-> Return([rec |-> s2._rec, frames |-> numframes])]

\* The except branch counting the reconnection only once the retry returned.
reconnect_count_late(s, numframes, env) ==
  LET c == close(s, env)
      s1 == [c.s EXCEPT !.device_name = None]
      o == open(s1, env)
      s2 == o.s
      cRetry == BCall("record", None, s2._device, s2._rec, numframes, env.record2, s2.held)
  IN IF c.out.status = "raise"
       THEN [s |-> c.s, calls |-> c.calls, out |-> c.out]
     ELSE IF o.out.status = "raise"
       THEN [s |-> o.s, calls |-> c.calls \o o.calls, out |-> o.out]
     ELSE IF ~env.record2
       THEN [s |-> s2, calls |-> c.calls \o o.calls \o <<cRetry>>,
             out |-> Raise("record2")]
     ELSE [s |-> [s2 EXCEPT !.blocks_read = @ + 1, !.reconnects = @ + 1],
           calls |-> c.calls \o o.calls \o <<cRetry>>,
           out |-> Return([rec |-> s2._rec, frames |-> numframes])]

\* The except branch retrying in a loop: a failed retry is recorded again.
reconnect_loop(s, numframes, env) ==
  LET c == close(s, env)
      s1 == [c.s EXCEPT !.device_name = None]
      o == open(s1, env)
      s2 == [o.s EXCEPT !.reconnects = @ + 1]
      cRetry == BCall("record", None, s2._device, s2._rec, numframes, env.record2, s2.held)
  IN IF c.out.status = "raise"
       THEN [s |-> c.s, calls |-> c.calls, out |-> c.out]
     ELSE IF o.out.status = "raise"
       THEN [s |-> o.s, calls |-> c.calls \o o.calls, out |-> o.out]
     ELSE IF ~env.record2
       THEN [s |-> s2, calls |-> c.calls \o o.calls \o <<cRetry, cRetry>>,
             out |-> Raise("record2")]
     ELSE [s |-> [s2 EXCEPT !.blocks_read = @ + 1],
           calls |-> c.calls \o o.calls \o <<cRetry>>,
           out |-> Return([rec |-> s2._rec, frames |-> numframes])]

\* The except branch reopening without closing first.
reconnect_no_close(s, numframes, env) ==
  LET s1 == [s EXCEPT !.device_name = None]
      o == open(s1, env)
      s2 == [o.s EXCEPT !.reconnects = @ + 1]
      cRetry == BCall("record", None, s2._device, s2._rec, numframes, env.record2, s2.held)
  IN IF o.out.status = "raise"
       THEN [s |-> o.s, calls |-> o.calls, out |-> o.out]
     ELSE IF ~env.record2
       THEN [s |-> s2, calls |-> o.calls \o <<cRetry>>,
             out |-> Raise("record2")]
     ELSE [s |-> [s2 EXCEPT !.blocks_read = @ + 1],
           calls |-> o.calls \o <<cRetry>>,
           out |-> Return([rec |-> s2._rec, frames |-> numframes])]

\* The except branch returning the retried block without counting it.
reconnect_block_uncounted(s, numframes, env) ==
  LET c == close(s, env)
      s1 == [c.s EXCEPT !.device_name = None]
      o == open(s1, env)
      s2 == [o.s EXCEPT !.reconnects = @ + 1]
      cRetry == BCall("record", None, s2._device, s2._rec, numframes, env.record2, s2.held)
  IN IF c.out.status = "raise"
       THEN [s |-> c.s, calls |-> c.calls, out |-> c.out]
     ELSE IF o.out.status = "raise"
       THEN [s |-> o.s, calls |-> c.calls \o o.calls, out |-> o.out]
     ELSE IF ~env.record2
       THEN [s |-> s2, calls |-> c.calls \o o.calls \o <<cRetry>>,
             out |-> Raise("record2")]
     ELSE [s |-> s2,
           calls |-> c.calls \o o.calls \o <<cRetry>>,
           out |-> Return([rec |-> s2._rec, frames |-> numframes])]

\* The except branch counting the reconnection before it reopens.
reconnect_count_early(s, numframes, env) ==
  LET c == close(s, env)
      s1 == [c.s EXCEPT !.device_name = None, !.reconnects = @ + 1]
      o == open(s1, env)
      s2 == o.s
      cRetry == BCall("record", None, s2._device, s2._rec, numframes, env.record2, s2.held)
  IN IF c.out.status = "raise"
       THEN [s |-> c.s, calls |-> c.calls, out |-> c.out]
     ELSE IF o.out.status = "raise"
       THEN [s |-> o.s, calls |-> c.calls \o o.calls, out |-> o.out]
     ELSE IF ~env.record2
       THEN [s |-> s2, calls |-> c.calls \o o.calls \o <<cRetry>>,
             out |-> Raise("record2")]
     ELSE [s |-> [s2 EXCEPT !.blocks_read = @ + 1],
           calls |-> c.calls \o o.calls \o <<cRetry>>,
           out |-> Return([rec |-> s2._rec, frames |-> numframes])]

\* The except branch closing the session again when the retry raises.
reconnect_close_on_failure(s, numframes, env) ==
  LET c == close(s, env)
      s1 == [c.s EXCEPT !.device_name = None]
      o == open(s1, env)
      s2 == [o.s EXCEPT !.reconnects = @ + 1]
      cRetry == BCall("record", None, s2._device, s2._rec, numframes, env.record2, s2.held)
      c2 == close(s2, Calm)
  IN IF c.out.status = "raise"
       THEN [s |-> c.s, calls |-> c.calls, out |-> c.out]
     ELSE IF o.out.status = "raise"
       THEN [s |-> o.s, calls |-> c.calls \o o.calls, out |-> o.out]
     ELSE IF ~env.record2
       THEN [s |-> c2.s, calls |-> c.calls \o o.calls \o <<cRetry>> \o c2.calls,
             out |-> Raise("record2")]
     ELSE [s |-> [s2 EXCEPT !.blocks_read = @ + 1],
           calls |-> c.calls \o o.calls \o <<cRetry>>,
           out |-> Return([rec |-> s2._rec, frames |-> numframes])]

\* The except branch putting device_name back when the reopen raises.
reconnect_name_restored(s, numframes, env) ==
  LET c == close(s, env)
      s1 == [c.s EXCEPT !.device_name = None]
      o == open(s1, env)
      s2 == [o.s EXCEPT !.reconnects = @ + 1]
      cRetry == BCall("record", None, s2._device, s2._rec, numframes, env.record2, s2.held)
  IN IF c.out.status = "raise"
       THEN [s |-> c.s, calls |-> c.calls, out |-> c.out]
     ELSE IF o.out.status = "raise"
       THEN [s |-> [o.s EXCEPT !.device_name = s.device_name],
             calls |-> c.calls \o o.calls, out |-> o.out]
     ELSE IF ~env.record2
       THEN [s |-> s2, calls |-> c.calls \o o.calls \o <<cRetry>>,
             out |-> Raise("record2")]
     ELSE [s |-> [s2 EXCEPT !.blocks_read = @ + 1],
           calls |-> c.calls \o o.calls \o <<cRetry>>,
           out |-> Return([rec |-> s2._rec, frames |-> numframes])]

\* The except branch of next_block: close, force default, reopen, retry once.
reconnect(s, numframes, env) ==
  LET c == close(s, env)
      s1 == [c.s EXCEPT !.device_name = None]
      o == open(s1, env)
      s2 == [o.s EXCEPT !.reconnects = @ + 1]
      cRetry == BCall("record", None, s2._device, s2._rec, numframes, env.record2, s2.held)
  IN IF c.out.status = "raise"
       THEN [s |-> c.s, calls |-> c.calls, out |-> c.out]
     ELSE IF o.out.status = "raise"
       THEN [s |-> o.s, calls |-> c.calls \o o.calls, out |-> o.out]
     ELSE IF ~env.record2
       THEN [s |-> s2, calls |-> c.calls \o o.calls \o <<cRetry>>,
             out |-> Raise("record2")]
     ELSE [s |-> [s2 EXCEPT !.blocks_read = @ + 1],
           calls |-> c.calls \o o.calls \o <<cRetry>>,
           out |-> Return([rec |-> s2._rec, frames |-> numframes])]

\* next_block() validating numframes before the opened check.
next_block_checks_swapped(s, numframes, env) ==
  IF numframes <= 0
    THEN [s |-> s, calls |-> <<>>, out |-> Raise("ValueError")]
  ELSE IF ~s._opened \/ s._rec = NoRec
    THEN [s |-> s, calls |-> <<>>, out |-> Raise("RuntimeError")]
  ELSE LET cRecord == BCall("record", None, s._device, s._rec, numframes, env.record1, s.held)
       IN IF env.record1
            THEN [s |-> [s EXCEPT !.blocks_read = @ + 1],
                  calls |-> <<cRecord>>,
                  out |-> Return([rec |-> s._rec, frames |-> numframes])]
            ELSE LET r == reconnect(s, numframes, env)
                 IN [s |-> r.s, calls |-> <<cRecord>> \o r.calls, out |-> r.out]

next_block(s, numframes, env) ==
  IF ~s._opened \/ s._rec = NoRec
    THEN [s |-> s, calls |-> <<>>, out |-> Raise("RuntimeError")]
  ELSE IF numframes <= 0
    THEN [s |-> s, calls |-> <<>>, out |-> Raise("ValueError")]
  ELSE LET cRecord == BCall("record", None, s._device, s._rec, numframes, env.record1, s.held)
       IN IF env.record1
            THEN [s |-> [s EXCEPT !.blocks_read = @ + 1],
                  calls |-> <<cRecord>>,
                  out |-> Return([rec |-> s._rec, frames |-> numframes])]
            ELSE LET r == reconnect(s, numframes, env)
                 IN [s |-> r.s, calls |-> <<cRecord>> \o r.calls, out |-> r.out]

\* One next_block call as it appears in the trace of a method call: the frames
\* asked for, how it ended, the frames of the block it returned, and whether its
\* first record raised (the except branch ran).
Read(numframes, r) ==
  [ n |-> numframes, status |-> r.out.status, err |-> r.out.err,
    frames |-> r.out.block.frames,
    recovery |-> (r.calls # <<>> /\ ~r.calls[1].ok) ]

\* ---------------------------------------------------------------- capture()
\* total_frames = int(duration * self.fs), duration in units of 1/DurationUnit s.
total_frames(s, duration) == (duration * s.fs) \div DurationUnit

\* The while loop of capture: acc holds the chunks appended and the traces.
\* One iteration of the while loop of capture() from the loop state p: the
\* block asked for (line 145), chunks.append (line 146) and frames_left
\* (line 147). The result of next_block is bound through a one-element set, so
\* it is computed once.
capture_step(p, nf, env) ==
  CHOOSE q \in
    { [ s |-> r.s,
        frames_left |-> IF r.out.status = "raise" THEN p.frames_left
                        ELSE p.frames_left - r.out.block.frames,
        chunks |-> IF r.out.status = "raise" THEN p.chunks
                   ELSE Append(p.chunks, r.out.block),
        calls |-> p.calls \o r.calls,
        reads |-> Append(p.reads, Read(nf, r)),
        out |-> IF r.out.status = "raise" THEN r.out ELSE Ok ]
      : r \in {next_block(p.s, nf, env)} } : TRUE

\* The while loop of capture(): at[k] is the loop's state after at most k
\* iterations. Every block next_block returns has at least one frame, so
\* frames_left is 0, or the loop has left by an exception, after total ones.
capture_loop(s, total, numframes, fault) ==
  LET at[k \in 0 .. total] ==
        IF k = 0
          THEN [s |-> s, frames_left |-> total, chunks |-> <<>>, calls |-> <<>>,
                reads |-> <<>>, out |-> Ok]
          ELSE CHOOSE q \in
                 { IF p.frames_left > 0 /\ p.out.status # "raise"
                     THEN capture_step(p, (IF p.frames_left >= numframes THEN numframes ELSE p.frames_left),
                            IF Len(p.reads) + 1 = fault.at THEN fault.env ELSE Calm)
                     ELSE p : p \in {at[k - 1]} } : TRUE
  IN at[total]

\* The while loop asking for numframes every time, also for the last block.
capture_loop_full_blocks(s, total, numframes, fault) ==
  LET at[k \in 0 .. total] ==
        IF k = 0
          THEN [s |-> s, frames_left |-> total, chunks |-> <<>>, calls |-> <<>>,
                reads |-> <<>>, out |-> Ok]
          ELSE CHOOSE q \in
                 { IF p.frames_left > 0 /\ p.out.status # "raise"
                     THEN capture_step(p, numframes,
                            IF Len(p.reads) + 1 = fault.at THEN fault.env ELSE Calm)
                     ELSE p : p \in {at[k - 1]} } : TRUE
  IN at[total]

\* Rows of np.concatenate(chunks, axis=0).
rows(chunks) ==
  LET sum[k \in 0 .. Len(chunks)] == IF k = 0 THEN 0 ELSE sum[k - 1] + chunks[k].frames
  IN sum[Len(chunks)]

\* capture() reading full blocks only.
capture_full_blocks(s, duration, numframes, fault) ==
  IF duration <= 0
    THEN [s |-> s, calls |-> <<>>, reads |-> <<>>, out |-> Raise("ValueError")]
    ELSE CHOOSE q \in
           { [ s |-> l.s, calls |-> l.calls, reads |-> l.reads,
               out |-> IF l.out.status = "raise" THEN l.out
                       ELSE IF l.chunks = <<>> THEN Raise("concatenate")
                       ELSE Return([rec |-> NoRec, frames |-> rows(l.chunks)]) ]
             : l \in {capture_loop_full_blocks(s, total_frames(s, duration), numframes, fault)} } : TRUE

\* capture() without the check of duration.
capture_unchecked(s, duration, numframes, fault) ==
  CHOOSE q \in
           { [ s |-> l.s, calls |-> l.calls, reads |-> l.reads,
               out |-> IF l.out.status = "raise" THEN l.out
                       ELSE IF l.chunks = <<>> THEN Raise("concatenate")
                       ELSE Return([rec |-> NoRec, frames |-> rows(l.chunks)]) ]
             : l \in {capture_loop(s, total_frames(s, duration), numframes, fault)} } : TRUE

capture(s, duration, numframes, fault) ==
  IF duration <= 0
    THEN [s |-> s, calls |-> <<>>, reads |-> <<>>, out |-> Raise("ValueError")]
    ELSE CHOOSE q \in
           { [ s |-> l.s, calls |-> l.calls, reads |-> l.reads,
               out |-> IF l.out.status = "raise" THEN l.out
                       ELSE IF l.chunks = <<>> THEN Raise("concatenate")
                       ELSE Return([rec |-> NoRec, frames |-> rows(l.chunks)]) ]
             : l \in {capture_loop(s, total_frames(s, duration), numframes, fault)} } : TRUE

\* ---------------------------------------------------------------- actions
WithinBounds(s) ==
  /\ s.created <= MaxRecorders
  /\ s.blocks_read <= MaxBlocks
  /\ s.reconnects <= MaxReconnects

\* The device name the session of SpecNamed is constructed with.
Configured == "spkB"

\* History of the recoveries, kept for the claims about the configured name:
\*   "no"      no next_block call has entered its except branch yet;
\*   "entered" some call has, but every such close() raised (line 111), so
\*             device_name was never forced to None;
\*   "forced"  a recovery has run device_name = None (line 112) and the
\*             backend has not since returned a device named Configured from
\*             get_speaker;
\*   "undone"  it has.
History(h, name, cs, rs) ==
  LET reading == name \in {"next_block", "capture"}
      entered == \E i \in 1 .. Len(rs) : rs[i].recovery
      forced == reading /\ \E i \in 1 .. Len(cs) : cs[i].fn = "__exit__" /\ cs[i].ok
      reported == \E i \in 1 .. Len(cs) :
                    cs[i].fn = "get_speaker" /\ cs[i].dev = Configured
  IN IF forced THEN "forced"
     ELSE IF h = "forced" /\ reported THEN "undone"
     ELSE IF h = "no" /\ entered THEN "entered"
     ELSE h

Apply(name, duration, arg, r, rs) ==
  /\ WithinBounds(r.s)
  /\ device_name' = r.s.device_name
  /\ fs' = r.s.fs
  /\ _device' = r.s._device
  /\ _rec' = r.s._rec
  /\ _opened' = r.s._opened
  /\ blocks_read' = r.s.blocks_read
  /\ reconnects' = r.s.reconnects
  /\ held' = r.s.held
  /\ created' = r.s.created
  /\ exit_calls' = r.s.exit_calls
  /\ op' = [name |-> name, duration |-> duration, arg |-> arg]
  /\ calls' = r.calls
  /\ reads' = rs
  /\ outcome' = r.out
  /\ discarded' = History(discarded, name, r.calls, rs)

\* AudioCapture(device_name, ...): the session as constructed, no backend call.
Init ==
  /\ device_name \in Names \cup {None}
  /\ fs \in SampleRates
  /\ _device = None
  /\ _rec = NoRec
  /\ _opened = FALSE
  /\ blocks_read = 0
  /\ reconnects = 0
  /\ held = {}
  /\ created = 0
  /\ exit_calls = [i \in RecIds |-> 0]
  /\ op = [name |-> "__init__", duration |-> 0, arg |-> 0]
  /\ calls = <<>>
  /\ reads = <<>>
  /\ outcome = Ok
  /\ discarded = "no"

\* The caller calls open() on a session that is not opened.
Open ==
  /\ ~_opened
  /\ \E env \in OpenEnvs : Apply("open", 0, 0, open(Self, env), <<>>)

\* The caller calls open() on a session that is already opened.
OpenAgain ==
  /\ _opened
  /\ \E env \in OpenEnvs : Apply("open", 0, 0, open(Self, env), <<>>)

Close ==
  \E env \in CloseEnvs : Apply("close", 0, 0, close(Self, env), <<>>)

NextBlock ==
  \E numframes \in NumFrames, env \in ReadEnvs :
    LET r == next_block(Self, numframes, env)
    IN Apply("next_block", 0, numframes, r, <<Read(numframes, r)>>)

Capture ==
  \E duration \in Durations, numframes \in NumFrames, fault \in CaptureFaults :
    \E r \in {capture(Self, duration, numframes, fault)} :
      Apply("capture", duration, numframes, r, r.reads)

Next == Open \/ OpenAgain \/ Close \/ NextBlock \/ Capture

Spec == Init /\ [][Next]_vars

\* The same session driven by a caller that only opens an unopened session.
NextPaired == Open \/ Close \/ NextBlock \/ Capture

SpecPaired == Init /\ [][NextPaired]_vars

\* A session constructed with the device name Configured, over a backend
\* whose default device is never the one named Configured.
InitNamed == Init /\ device_name = Configured

DefaultDiffers ==
  \A i \in 1 .. Len(calls) : calls[i].fn = "default_speaker" => calls[i].dev # Configured

NextNamed ==
  \/ Open /\ DefaultDiffers'
  \/ OpenAgain /\ DefaultDiffers'
  \/ Close /\ DefaultDiffers'
  \/ NextBlock /\ DefaultDiffers'
  \/ Capture /\ DefaultDiffers'

SpecNamed == InitNamed /\ [][NextNamed]_vars

\* ---------------------------------------------------------------- properties
Session == <<device_name, fs, _device, _rec, _opened, blocks_read, reconnects>>
Backend == <<held, created, exit_calls>>
Last == Len(calls)
Count(fn) == Cardinality({i \in 1 .. Len(calls) : calls[i].fn = fn})

\* A next_block call whose first record failed and whose last backend call
\* was the retried record.
Retried(cs) ==
  /\ Len(cs) > 1
  /\ cs[1].fn = "record" /\ ~cs[1].ok
  /\ cs[Len(cs)].fn = "record"

\* C1: when the first record of a next_block call fails, the reopen succeeds
\* and the retried record succeeds, the call returns the retried block,
\* reconnects and blocks_read have each grown by exactly 1, the session is
\* opened and device_name is the name of the default device resolved during
\* the recovery.
C1_RecoveredRead ==
  [][ (op'.name = "next_block" /\ Retried(calls') /\ calls'[Len(calls')].ok) =>
        /\ outcome'.status = "ok"
        /\ outcome'.block = [rec |-> calls'[Len(calls')].rec, frames |-> op'.arg]
        /\ outcome'.block.rec = _rec' /\ _rec' # _rec
        /\ reconnects' = reconnects + 1
        /\ blocks_read' = blocks_read + 1
        /\ _opened'
        /\ \E i \in 1 .. Len(calls') :
             /\ calls'[i].fn = "default_speaker" /\ calls'[i].ok
             /\ device_name' = calls'[i].dev ]_vars

\* A recovered read that moved the session to another device.
C1_Witness ==
  /\ op.name = "next_block" /\ outcome.status = "ok"
  /\ Retried(calls) /\ calls[Last].ok
  /\ calls[1].dev # device_name
  /\ reconnects = 1 /\ blocks_read = 1

\* C2: when both the first and the retried record of a next_block call fail,
\* the call raises the retry's error, reconnects has grown by exactly 1 and
\* blocks_read is unchanged.
C2_RetryFails ==
  [][ (op'.name = "next_block" /\ Retried(calls') /\ ~calls'[Len(calls')].ok) =>
        /\ outcome' = Raise("record2")
        /\ reconnects' = reconnects + 1
        /\ blocks_read' = blocks_read ]_vars

C2_Witness ==
  /\ op.name = "next_block" /\ outcome = Raise("record2")
  /\ Retried(calls) /\ ~calls[Last].ok
  /\ reconnects = 1 /\ blocks_read = 0

\* C3: one next_block call makes at most two record calls, releases at most
\* one recorder and opens at most once, and a failure of any backend call
\* after the first record ends the call with an error (it is the last backend
\* call made).
C3_SingleRetry ==
  op.name = "next_block" =>
    /\ Count("record") <= 2
    /\ Count("__exit__") <= 1
    /\ Count("get_speaker") + Count("default_speaker") <= 1
    /\ Count("recorder") <= 1
    /\ Count("__enter__") <= 1
    /\ \A i \in 2 .. Last : ~calls[i].ok => (i = Last /\ outcome.status = "raise")

\* A call that used its one recovery and failed in the retry.
C3_Witness ==
  /\ op.name = "next_block" /\ outcome.status = "raise"
  /\ Count("record") = 2 /\ Count("__exit__") = 1 /\ Count("__enter__") = 1

\* C4: between calls, _opened is true exactly when the session holds a
\* recorder handle.
C4_OpenedIffHandle == _opened <=> (_rec # NoRec)

\* A recovery whose reopen failed after the recorder was created.
C4_Witness ==
  /\ op.name = "next_block" /\ outcome = Raise("__enter__")
  /\ ~_opened /\ _rec = NoRec /\ created >= 2

\* C5: when the caller only opens an unopened session, the recorders acquired
\* and not released are exactly the one the opened session stores (none when
\* it is not opened), never more than one at any point of a call, and no
\* recorder is released twice.
C5_PairedAcquireRelease ==
  /\ held = IF _opened THEN {_rec} ELSE {}
  /\ \A i \in 1 .. Last : calls[i].nheld <= 1
  /\ \A i \in RecIds : exit_calls[i] <= 1 /\ (i \in held => exit_calls[i] = 0)
  /\ \A i \in RecIds : exit_calls[i] = 1 => i <= created

\* A recovery that released the first recorder and acquired the second.
C5_Witness ==
  /\ op.name = "next_block" /\ Count("__exit__") = 1 /\ Count("__enter__") = 1
  /\ _opened /\ held = {2} /\ exit_calls[1] = 1

\* C6: open() on an opened session never leaves a recorder acquired that the
\* session no longer references, nor two recorders acquired at once.
C6_NoLeakOnReopen ==
  /\ held \subseteq {_rec}
  /\ Cardinality(held) <= 1

\* C7: a failed open() on an unopened session raises, acquires no recorder
\* and leaves the session unopened with device_name, blocks_read and
\* reconnects unchanged.
C7_FailedOpen ==
  [][ (op'.name = "open" /\ ~_opened /\ outcome'.status = "raise") =>
        /\ outcome'.err \in {"default_speaker", "recorder", "__enter__"}
        /\ held' = held
        /\ ~_opened' /\ _rec' = NoRec
        /\ device_name' = device_name
        /\ blocks_read' = blocks_read
        /\ reconnects' = reconnects ]_vars

\* An open() that failed while entering the recorder of a named device.
C7_Witness ==
  /\ op.name = "open" /\ outcome = Raise("__enter__")
  /\ ~_opened /\ device_name # None /\ calls[1].fn = "get_speaker"

\* C8: when the named device cannot be resolved, open() resolves the default
\* device and succeeds if the default resolves and its recorder is acquired;
\* after every successful open the session is opened and device_name is the
\* backend-reported name of the device whose recorder was entered.
C8_Resolution ==
  /\ \A i \in 1 .. Last :
       (calls[i].fn = "get_speaker" /\ ~calls[i].ok) =>
          /\ Last > i /\ calls[i + 1].fn = "default_speaker"
          /\ (calls[i + 1].ok /\ Last >= i + 3) => calls[i + 2].dev = calls[i + 1].dev
  /\ \A i \in 1 .. Last :
       (calls[i].fn = "__enter__" /\ calls[i].ok /\ op.name = "open") =>
          /\ outcome.status = "ok"
          /\ _opened /\ _rec = calls[i].rec /\ _rec \in held
          /\ device_name = calls[i].dev /\ _device = calls[i].dev
          /\ calls[i - 1].fn = "recorder" /\ calls[i - 1].dev = calls[i].dev
          /\ calls[i - 2].dev = calls[i].dev
          /\ calls[i - 2].fn \in {"get_speaker", "default_speaker"}

\* An open() that fell back to the default device and succeeded.
C8_Witness ==
  /\ op.name = "open" /\ outcome.status = "ok" /\ Last = 4
  /\ calls[1].fn = "get_speaker" /\ ~calls[1].ok
  /\ calls[2].fn = "default_speaker" /\ device_name = calls[2].dev
  /\ calls[1].arg # device_name

\* C9: close() on a session that is not opened raises nothing, makes no
\* backend call and changes nothing.
C9_CloseNoOp ==
  [][ (op'.name = "close" /\ ~_opened) =>
        /\ outcome' = Ok
        /\ calls' = <<>>
        /\ UNCHANGED Session
        /\ UNCHANGED Backend ]_vars

\* A second close() in a row.
C9_Witness ==
  /\ op.name = "close" /\ calls = <<>> /\ outcome = Ok
  /\ ~_opened /\ created >= 1 /\ exit_calls[1] = 1

\* C10: next_block on a session that is not opened raises the not-opened
\* error, and on an opened session with numframes <= 0 the argument error;
\* either way without a backend call and without changing anything.
C10_Preconditions ==
  [][ (op'.name = "next_block" /\ (~_opened \/ op'.arg <= 0)) =>
        /\ outcome' = Raise(IF ~_opened THEN "RuntimeError" ELSE "ValueError")
        /\ calls' = <<>>
        /\ UNCHANGED Session
        /\ UNCHANGED Backend ]_vars

\* A rejected read after a close, with an argument that is also invalid.
C10_Witness ==
  /\ op.name = "next_block" /\ outcome = Raise("RuntimeError")
  /\ op.arg <= 0 /\ ~_opened /\ exit_calls[1] = 1

\* ---------------------------------------------------------------- capture and counters
Returned(rs) == Cardinality({i \in 1 .. Len(rs) : rs[i].status = "ok"})
Recoveries(rs) == Cardinality({i \in 1 .. Len(rs) : rs[i].recovery})
Reopened(cs) == Cardinality({i \in 1 .. Len(cs) : cs[i].fn = "__enter__" /\ cs[i].ok})
AllOk(cs) == \A i \in 1 .. Len(cs) : cs[i].ok

\* C11: on an opened session whose backend returns every block asked for,
\* capture with duration > 0 and numframes > 0 returns exactly
\* floor(duration * sample rate) rows, also when that number is 0.
C11_ExactRows ==
  [][ (op'.name = "capture" /\ _opened /\ op'.duration > 0 /\ op'.arg > 0
         /\ AllOk(calls')) =>
        /\ outcome'.status = "ok"
        /\ outcome'.block.frames = (op'.duration * fs) \div DurationUnit ]_vars

\* C12: capture with duration <= 0 raises the argument error before any read:
\* no backend call, nothing changed, opened or not.
C12_DurationRejected ==
  [][ (op'.name = "capture" /\ op'.duration <= 0) =>
        /\ outcome' = Raise("ValueError")
        /\ calls' = <<>> /\ reads' = <<>>
        /\ UNCHANGED Session
        /\ UNCHANGED Backend ]_vars

\* A rejected capture on a session that is not opened.
C12_Witness ==
  /\ op.name = "capture" /\ op.duration <= 0 /\ op.arg > 0
  /\ outcome = Raise("ValueError") /\ ~_opened /\ calls = <<>>

\* C13: every method call adds to blocks_read exactly the number of its
\* next_block calls that returned a block (first try or retry); those that
\* raise add nothing, and open and close make no next_block call.
C13_BlocksCounted ==
  [][ /\ blocks_read' = blocks_read + Returned(reads')
      /\ op'.name \in {"open", "close"} => reads' = <<>>
      /\ op'.name = "next_block" => Len(reads') = 1
      /\ Returned(reads') =
           Cardinality({j \in 1 .. Len(calls') : calls'[j].fn = "record" /\ calls'[j].ok}) ]_vars

\* A capture of two blocks, the second returned by the retry of a recovery.
C13_Witness ==
  /\ op.name = "capture" /\ outcome.status = "ok" /\ Len(reads) = 2
  /\ ~reads[1].recovery /\ reads[2].recovery /\ reads[2].status = "ok"
  /\ blocks_read = 2

\* C14 as claimed: every next_block call whose first record fails adds exactly
\* 1 to reconnects, however it ends, and nothing else changes reconnects.
C14_PerEpisode ==
  [][ reconnects' = reconnects + Recoveries(reads') ]_vars

\* C14 amended: every method call adds to reconnects exactly the number of its
\* recoveries whose reopen succeeded, whether the retry then returned or
\* raised; a recovery whose close or reopen raised adds nothing, and open and
\* close never change reconnects.
C14_PerReopen ==
  [][ /\ reconnects' = reconnects +
           (IF op'.name \in {"next_block", "capture"} THEN Reopened(calls') ELSE 0)
      /\ Recoveries(reads') >= Reopened(calls') \/ op'.name \in {"open", "close"} ]_vars

\* A recovery whose reopen found no default device: reconnects not counted.
C14_Witness ==
  /\ op.name = "next_block" /\ reads[1].recovery
  /\ outcome = Raise("default_speaker") /\ reconnects = 0 /\ blocks_read = 0

\* C16: close() on an opened session calls __exit__ on the stored recorder
\* exactly once and ends with the handles cleared and the session unopened,
\* also when __exit__ raises (the error then reaches the caller).
C16_CloseAlwaysCloses ==
  [][ (op'.name = "close" /\ _opened) =>
        /\ Len(calls') = 1
        /\ calls'[1].fn = "__exit__" /\ calls'[1].rec = _rec
        /\ exit_calls' = [exit_calls EXCEPT ![_rec] = @ + 1]
        /\ ~_opened' /\ _rec' = NoRec /\ _device' = None
        /\ outcome' = IF calls'[1].ok THEN Ok ELSE Raise("__exit__") ]_vars

\* A close() whose release raised.
C16_Witness ==
  /\ op.name = "close" /\ outcome = Raise("__exit__")
  /\ ~_opened /\ _rec = NoRec /\ _device = None /\ exit_calls[1] = 1

\* ceil(a / b) for b > 0.
CeilDiv(a, b) == (a + b - 1) \div b
Min(a, b) == IF a <= b THEN a ELSE b

\* C17: on an opened session whose backend returns every block asked for,
\* capture(duration, numframes) with total_frames > 0 makes exactly
\* ceil(total_frames / numframes) next_block calls, the i-th asking for
\* min(numframes, frames remaining), and adds that number to blocks_read.
C17_CaptureReads ==
  [][ (op'.name = "capture" /\ _opened /\ op'.duration > 0 /\ op'.arg > 0
         /\ AllOk(calls') /\ (op'.duration * fs) \div DurationUnit > 0) =>
        LET total == (op'.duration * fs) \div DurationUnit
            nf == op'.arg
        IN /\ Len(reads') = CeilDiv(total, nf)
           /\ Len(calls') = Len(reads')
           /\ \A i \in 1 .. Len(reads') :
                /\ reads'[i].n = Min(nf, total - (i - 1) * nf)
                /\ reads'[i].status = "ok" /\ reads'[i].frames = reads'[i].n
                /\ calls'[i].fn = "record" /\ calls'[i].n = reads'[i].n
           /\ blocks_read' = blocks_read + CeilDiv(total, nf) ]_vars

\* A capture of 3 frames in blocks of 2: a full block, then the remainder.
C17_Witness ==
  /\ op.name = "capture" /\ op.arg = 2 /\ outcome.status = "ok"
  /\ outcome.block.frames = 3 /\ Len(reads) = 2
  /\ reads[1].n = 2 /\ reads[2].n = 1 /\ AllOk(calls)

\* The last backend call was a failed step of the reopen of a recovery: it
\* follows a record that raised and the __exit__ of the close.
ReopenFailed(cs) ==
  /\ \E i \in 1 .. Len(cs) :
       /\ cs[i].fn = "record" /\ ~cs[i].ok
       /\ Len(cs) >= i + 2 /\ cs[i + 1].fn = "__exit__"
  /\ cs[Len(cs)].fn \in {"default_speaker", "recorder", "__enter__"}
  /\ ~cs[Len(cs)].ok

\* C18: when the retried record of a next_block call raises, the session
\* stays opened on the default device with exactly one recorder acquired, and
\* the next next_block call records on it (recovering again if that fails)
\* instead of raising the not-opened error.
C18_OpenAfterFailedRetry ==
  [][ /\ (op'.name = "next_block" /\ outcome' = Raise("record2")) =>
           /\ _opened' /\ _rec' # NoRec /\ held' = {_rec'}
           /\ \E i \in 1 .. Len(calls') :
                /\ calls'[i].fn = "default_speaker"
                /\ device_name' = calls'[i].dev /\ _device' = calls'[i].dev
      /\ (op.name = "next_block" /\ outcome = Raise("record2")
            /\ op'.name = "next_block" /\ op'.arg > 0) =>
           /\ outcome'.err # "RuntimeError"
           /\ calls' # <<>> /\ calls'[1].fn = "record" /\ calls'[1].rec = _rec
           /\ ~calls'[1].ok => (Len(calls') >= 2 /\ calls'[2].fn = "__exit__") ]_vars

\* A session left opened on the second recorder by a failed retry.
C18_Witness ==
  /\ op.name = "next_block" /\ outcome = Raise("record2")
  /\ _opened /\ held = {_rec} /\ _rec = 2 /\ device_name = _device

\* C19: when the reopen of a recovery fails, next_block raises the open error
\* without a second record call and leaves the session unopened, no recorder
\* acquired, device_name unset and blocks_read unchanged; the next next_block
\* call raises the not-opened error.
C19_ReopenFails ==
  [][ /\ (op'.name = "next_block" /\ ReopenFailed(calls')) =>
           /\ outcome' = Raise(calls'[Len(calls')].fn)
           /\ Cardinality({i \in 1 .. Len(calls') : calls'[i].fn = "record"}) = 1
           /\ ~_opened' /\ _rec' = NoRec /\ held' = {}
           /\ device_name' = None
           /\ blocks_read' = blocks_read
      /\ (op.name = "next_block" /\ ReopenFailed(calls) /\ op'.name = "next_block") =>
           /\ outcome' = Raise("RuntimeError") /\ calls' = <<>> ]_vars

\* A recovery that released the recorder and could not create another.
C19_Witness ==
  /\ op.name = "next_block" /\ ReopenFailed(calls) /\ outcome = Raise("recorder")
  /\ ~_opened /\ held = {} /\ device_name = None /\ exit_calls[1] = 1

\* C20: every open() by the caller asks the backend for the stored device_name
\* first when it is set, and for the default device only when that lookup
\* raised; it resolves the default directly only when device_name is unset.
\* A successful open sets device_name, and it is unset again only by a
\* recovery whose reopen failed.
C20_PinnedByName ==
  [][ /\ op'.name = "open" =>
           /\ calls' # <<>>
           /\ IF device_name # None
                THEN /\ calls'[1].fn = "get_speaker" /\ calls'[1].arg = device_name
                     /\ (~calls'[1].ok) <=>
                          (\E i \in 1 .. Len(calls') : calls'[i].fn = "default_speaker")
                ELSE /\ calls'[1].fn = "default_speaker"
                     /\ \A i \in 1 .. Len(calls') : calls'[i].fn # "get_speaker"
           /\ outcome'.status = "ok" => device_name' \in Names
      /\ device_name' = None =>
           /\ ~_opened'
           /\ \/ device_name = None /\ Reopened(calls') = 0
              \/ /\ op'.name \in {"next_block", "capture"}
                 /\ ReopenFailed(calls') ]_vars

\* A second open() by the caller, after a close, resolved by the stored name.
C20_Witness ==
  /\ op.name = "open" /\ outcome.status = "ok" /\ exit_calls[1] = 1
  /\ calls[1].fn = "get_speaker" /\ calls[1].ok /\ Last = 3
  /\ reconnects = 0 /\ device_name = calls[1].dev

AsksFor(cs, name) ==
  \E i \in 1 .. Len(cs) : cs[i].fn = "get_speaker" /\ cs[i].arg = name

\* C15 as claimed: once a next_block call has entered the recovery path, no
\* reopen of a recovery and no later open() asks the backend for the
\* configured name (which is never the default device's name).
C15_NeverAskedAgain ==
  [][ (discarded # "no" \/ Recoveries(reads') > 0) => ~AsksFor(calls', Configured) ]_vars

\* C15 amended: a recovery whose close() returned forces device_name to None:
\* its own reopen, like that of every recovery, asks the backend for no name at
\* all, and no later open() asks for the configured name as long as the backend
\* has not returned a device of that name from a lookup by name since.
C15_DiscardedOnceForced ==
  [][ /\ op'.name \in {"next_block", "capture"} =>
           \A i \in 1 .. Len(calls') : calls'[i].fn # "get_speaker"
      /\ discarded = "forced" => ~AsksFor(calls', Configured)
      /\ discarded' = "forced" => device_name' # Configured ]_vars

\* After a recovery, an open() by the caller that asked for the default
\* device's name, not for the configured one.
C15_Witness ==
  /\ discarded = "forced" /\ op.name = "open" /\ reconnects = 1
  /\ calls[1].fn = "get_speaker" /\ calls[1].arg # Configured

====
